---- MODULE Spec2Model ----
(***************************************************************************)
(* Model of the warehouse loader src/30_load/load_to_postgres.py: the      *)
(* dimension registrations, the mapping fetches, the fact building, the    *)
(* NULL check and the three fact upserts of main(), run in one database    *)
(* transaction (engine.begin()).                                           *)
(*                                                                         *)
(* A table is the set of its rows (records).  A DataFrame is the set of    *)
(* its rows; a column handed to a function as a Python list is a sequence. *)
(* A nullable cell is a sequence: <<>> is the missing value (NaN / NULL),  *)
(* <<v>> holds v.                                                          *)
(***************************************************************************)
EXTENDS Integers, Sequences, FiniteSets, TLC

VARIABLES
    db,     \* the committed warehouse: the four dimension tables, the three
            \* fact tables and the set of staging tables that exist
    res,    \* what the last call reported: outcome, the table and columns the
            \* error names, whether the transaction held changes of a
            \* dimension or fact table when it was rolled back, and the
            \* staging tables the transaction held when it ended
    call    \* the last call: its name and, for a direct call of an upsert,
            \* its arguments (the marts of a run of main are not kept)

vars == <<db, res, call>>

(* ------------------------------ bounds -------------------------------- *)

\* rows of the three marts of one run, together
MaxRows == 2
\* length of a candidate list handed straight to a dimension registration
MaxLen == 2
\* rows of a fact DataFrame handed straight to a fact upsert
MaxBatch == 1

(* --------------------------- value universes -------------------------- *)

NA == <<>>

isna(x) == x = NA

Regions == {"North", "South"}
Sources == {"Gas"}
Sectors == {"Industry"}
YearMonths == {<<2024, 1>>}

\* candidates of the direct dimension calls
DimNames == {"North", "South", "East"}
DimYearMonths == {<<2024, 1>>, <<2024, 2>>}

RECURSIVE SetToSeq(_)
SetToSeq(S) ==
    IF S = {} THEN <<>>
    ELSE LET x == CHOOSE y \in S : TRUE IN <<x>> \o SetToSeq(S \ {x})

ToSet(s) == {s[i] : i \in DOMAIN s}

\* the sequences over S of length at most n
SeqsUpTo(S, n) == UNION {[1..k -> S] : k \in 0..n}

\* the enumerations (without repetition) of a finite set
Orders(S) == {o \in [1..Cardinality(S) -> S] : ToSet(o) = S}

SubsetsUpTo(S, n) == {T \in SUBSET S : Cardinality(T) <= n}

(* ------------------------------- marts -------------------------------- *)

\* silver_to_gold.py: the ratio, undefined when the denominator is zero
\* (total_energy_mwh.replace(0, pd.NA)); the totals are chosen divisible
carbon_intensity(total_energy_mwh, total_co2_tonnes) ==
    IF total_energy_mwh = 0 THEN NA
    ELSE <<total_co2_tonnes \div total_energy_mwh>>

EnergyMetrics ==
    { [avg_consumption_mwh |-> <<10>>, max_consumption_mwh |-> <<15>>,
       avg_temp_c |-> <<5>>, records |-> <<2>>],
      [avg_consumption_mwh |-> <<20>>, max_consumption_mwh |-> <<25>>,
       avg_temp_c |-> <<7>>, records |-> <<3>>],
      [avg_consumption_mwh |-> <<10>>, max_consumption_mwh |-> <<15>>,
       avg_temp_c |-> NA, records |-> <<2>>] }

EmissionsMetrics ==
    { [avg_co2_tonnes |-> <<60>>, total_co2_tonnes |-> <<120>>, records |-> <<2>>],
      [avg_co2_tonnes |-> <<40>>, total_co2_tonnes |-> <<80>>, records |-> <<2>>] }

IntensityMetrics ==
    { [total_energy_mwh |-> <<e>>, total_co2_tonnes |-> <<120>>,
       co2_per_mwh |-> carbon_intensity(e, 120)] : e \in {0, 10, 20} }

\* the versions the marts of a run are drawn from
EmissionsMartMetrics == {m \in EmissionsMetrics : m.avg_co2_tonnes = <<60>>}

IntensityMartMetrics == {m \in IntensityMetrics : m.total_energy_mwh \in {<<0>>, <<10>>}}

\* the rows a mart file can hold (the column contract of each mart)
EnergyMartRows ==
    { [region |-> r, energy_source |-> s, year |-> ym[1], month |-> ym[2],
       avg_consumption_mwh |-> m.avg_consumption_mwh,
       max_consumption_mwh |-> m.max_consumption_mwh,
       avg_temp_c |-> m.avg_temp_c, records |-> m.records]
      : r \in Regions, s \in Sources, ym \in YearMonths, m \in EnergyMetrics }

EmissionsMartRows ==
    { [region |-> r, sector |-> s, year |-> ym[1], month |-> ym[2],
       avg_co2_tonnes |-> m.avg_co2_tonnes,
       total_co2_tonnes |-> m.total_co2_tonnes, records |-> m.records]
      : r \in Regions, s \in Sectors, ym \in YearMonths, m \in EmissionsMartMetrics }

IntensityMartRows ==
    { [region |-> r, year |-> ym[1], month |-> ym[2],
       total_energy_mwh |-> m.total_energy_mwh,
       total_co2_tonnes |-> m.total_co2_tonnes, co2_per_mwh |-> m.co2_per_mwh]
      : r \in Regions, ym \in YearMonths, m \in IntensityMartMetrics }

\* the three marts of one run: at most MaxRows rows together
MartTriples ==
    { t \in SubsetsUpTo(EnergyMartRows, MaxRows)
            \X SubsetsUpTo(EmissionsMartRows, MaxRows)
            \X SubsetsUpTo(IntensityMartRows, MaxRows) :
        Cardinality(t[1]) + Cardinality(t[2]) + Cardinality(t[3]) <= MaxRows }

\* df[col].tolist()
Column(df, col) == LET rows == SetToSeq(df) IN [i \in DOMAIN rows |-> rows[i][col]]

\* zip(df["year"], df["month"])
YearMonthOf(r) == <<r.year, r.month>>

(* --------------------------- the warehouse ---------------------------- *)

DimTables == {"dim_region", "dim_energy_source", "dim_sector"}

\* the id column of each dimension table, as main() names it when it
\* fetches the mappings
IdCol(table) ==
    CASE table = "dim_region" -> "region_id"
      [] table = "dim_energy_source" -> "source_id"
      [] table = "dim_sector" -> "sector_id"

NameCol(table) ==
    CASE table = "dim_region" -> "region_name"
      [] table = "dim_energy_source" -> "source_name"
      [] table = "dim_sector" -> "sector_name"

\* stg = f"stg_{table}"
StgOf(table) == "stg_" \o table

EmptyWarehouse ==
    [dim_region |-> {}, dim_energy_source |-> {}, dim_sector |-> {},
     dim_time |-> {},
     fact_energy_monthly |-> {}, fact_emissions_monthly |-> {},
     fact_carbon_intensity |-> {},
     stg |-> {}]

Max(S) == CHOOSE x \in S : \A y \in S : y <= x

\* the id the table's default gives the next inserted row: an id above
\* every id the table holds
NextId(rows, id_col) == IF rows = {} THEN 1 ELSE Max({r[id_col] : r \in rows}) + 1

\* df.to_sql(stg, conn, if_exists="replace")
ToSql(conn, stg) == [conn EXCEPT !.stg = @ \cup {stg}]

\* faulty variant: the DROP statement is left out
KeepTable(conn, stg) == conn

\* DROP TABLE IF EXISTS stg
DropTable(conn, stg) == [conn EXCEPT !.stg = @ \ {stg}]

(* --------------------- dimension registration ------------------------- *)

\* faulty variant: no anti-join: every staged value counts as missing
MissingNamesAll(rows, name_col, vals) == vals

\* the anti-join of upsert_dim_table: the staged values no row of the
\* table holds
MissingNames(rows, name_col, vals) ==
    {v \in vals : \A d \in rows : d[name_col] # v}

\* INSERT INTO table (name_col) SELECT ... : one row per value of ord, ids
\* from the table's default, in the order ord the engine returns the rows
InsertNames(rows, id_col, name_col, ord) ==
    rows \cup { [c \in {id_col, name_col} |->
                    IF c = id_col THEN NextId(rows, id_col) + i - 1 ELSE ord[i]]
                : i \in DOMAIN ord }

\* upsert_dim_table(conn, table, name_col, values); ord is the order in
\* which the engine inserts the missing values, fails says that the INSERT
\* statement raises
upsert_dim_table(conn, table, name_col, values, ord, fails) ==
    LET vals == ToSet(values)
        stg == StgOf(table)
        staged == ToSql(conn, stg)
        missing == MissingNames(conn[table], name_col, vals)
        inserted == [staged EXCEPT ![table] =
                        InsertNames(@, IdCol(table), name_col,
                                    SelectSeq(ord, LAMBDA v : v \in missing))]
    IN  IF vals = {} THEN [conn |-> conn, raised |-> FALSE]
        ELSE IF fails THEN [conn |-> staged, raised |-> TRUE]
        ELSE [conn |-> DropTable(inserted, stg), raised |-> FALSE]

MissingYearMonths(rows, pairs) ==
    {p \in pairs : \A t \in rows : ~(t.year = p[1] /\ t.month = p[2])}

InsertYearMonths(rows, ord) ==
    rows \cup { [time_id |-> NextId(rows, "time_id") + i - 1,
                 year |-> ord[i][1], month |-> ord[i][2]] : i \in DOMAIN ord }

\* upsert_dim_time(conn, year_month_pairs)
upsert_dim_time(conn, year_month_pairs, ord, fails) ==
    LET pairs == ToSet(year_month_pairs)
        staged == ToSql(conn, "stg_dim_time")
        missing == MissingYearMonths(conn.dim_time, pairs)
        inserted == [staged EXCEPT !.dim_time =
                        InsertYearMonths(@, SelectSeq(ord, LAMBDA p : p \in missing))]
    IN  IF year_month_pairs = <<>> THEN [conn |-> conn, raised |-> FALSE]
        ELSE IF fails THEN [conn |-> staged, raised |-> TRUE]
        ELSE [conn |-> DropTable(inserted, "stg_dim_time"), raised |-> FALSE]

\* fetch_dim_map: {name: id}
fetch_dim_map(conn, table, id_col, name_col) ==
    [n \in {r[name_col] : r \in conn[table]} |->
        (CHOOSE r \in conn[table] : r[name_col] = n)[id_col]]

\* fetch_time_map: {(year, month): time_id}
fetch_time_map(conn) ==
    [p \in {<<t.year, t.month>> : t \in conn.dim_time} |->
        (CHOOSE t \in conn.dim_time : t.year = p[1] /\ t.month = p[2]).time_id]

\* Series.map(mapping): the id, or the missing value for an unmapped key
MapId(mapping, key) == IF key \in DOMAIN mapping THEN <<mapping[key]>> ELSE NA

(* ---------------------------- fact upserts ---------------------------- *)

EnergyKey == {"region_id", "source_id", "time_id"}
EnergySet == {"avg_consumption_mwh", "max_consumption_mwh", "avg_temp_c", "records"}

EmissionsKey == {"region_id", "sector_id", "time_id"}
EmissionsSet == {"avg_co2_tonnes", "total_co2_tonnes", "records"}

IntensityKey == {"region_id", "time_id"}
IntensitySet == {"total_energy_mwh", "total_co2_tonnes", "co2_per_mwh"}

\* the conflict target: two rows agree on every key column (a NULL equals
\* nothing)
SameKey(a, b, key) == \A c \in key : ~isna(a[c]) /\ a[c] = b[c]

\* faulty variant: the update accumulates: c = target.c + EXCLUDED.c
DoUpdateSum(existing, excluded, set_cols) ==
    [c \in DOMAIN existing |->
        IF c \in set_cols /\ ~isna(existing[c]) /\ ~isna(excluded[c])
        THEN <<existing[c][1] + excluded[c][1]>> ELSE existing[c]]

\* DO UPDATE SET c = EXCLUDED.c for the columns of set_cols
DoUpdate(existing, excluded, set_cols) ==
    [c \in DOMAIN existing |-> IF c \in set_cols THEN excluded[c] ELSE existing[c]]

\* the engine refuses a statement that would touch one row twice
AffectsRowTwice(df, key) ==
    \E a, b \in df : a # b /\ SameKey(a, b, key)

\* faulty variant: a plain INSERT into a table without the uniqueness constraint
InsertAll(target, df, key, set_cols) == target \cup df

\* faulty variant: the target is emptied and reloaded from the staging table
ReplaceAll(target, df, key, set_cols) == df

\* INSERT INTO target SELECT ... FROM stg ON CONFLICT (key) DO UPDATE SET ...
InsertOnConflict(target, df, key, set_cols) ==
    {t \in target : \A s \in df : ~SameKey(t, s, key)}
    \cup {DoUpdate(t, s, set_cols) : <<t, s>> \in
            {p \in target \X df : SameKey(p[1], p[2], key)}}
    \cup {s \in df : \A t \in target : ~SameKey(t, s, key)}

\* the body the three fact upserts share: stage, merge, drop
UpsertFact(conn, df, table, stg, key, set_cols, fails) ==
    LET staged == ToSql(conn, stg)
        merged == [staged EXCEPT ![table] = InsertOnConflict(@, df, key, set_cols)]
    IN  IF fails \/ AffectsRowTwice(df, key)
        THEN [conn |-> staged, raised |-> TRUE]
        ELSE [conn |-> DropTable(merged, stg), raised |-> FALSE]

upsert_fact_energy(conn, df, fails) ==
    UpsertFact(conn, df, "fact_energy_monthly", "stg_fact_energy",
               EnergyKey, EnergySet, fails)

upsert_fact_emissions(conn, df, fails) ==
    UpsertFact(conn, df, "fact_emissions_monthly", "stg_fact_emissions",
               EmissionsKey, EmissionsSet, fails)

upsert_fact_intensity(conn, df, fails) ==
    UpsertFact(conn, df, "fact_carbon_intensity", "stg_fact_intensity",
               IntensityKey, IntensitySet, fails)

(* --------------------------- fact building ---------------------------- *)

energy_fact(energy_m, region_map, source_map, time_map) ==
    { [region_id |-> MapId(region_map, r.region),
       source_id |-> MapId(source_map, r.energy_source),
       time_id |-> MapId(time_map, YearMonthOf(r)),
       avg_consumption_mwh |-> r.avg_consumption_mwh,
       max_consumption_mwh |-> r.max_consumption_mwh,
       avg_temp_c |-> r.avg_temp_c,
       records |-> r.records] : r \in energy_m }

emissions_fact(emis_m, region_map, sector_map, time_map) ==
    { [region_id |-> MapId(region_map, r.region),
       sector_id |-> MapId(sector_map, r.sector),
       time_id |-> MapId(time_map, YearMonthOf(r)),
       avg_co2_tonnes |-> r.avg_co2_tonnes,
       total_co2_tonnes |-> r.total_co2_tonnes,
       records |-> r.records] : r \in emis_m }

intensity_fact(intensity, region_map, time_map) ==
    { [region_id |-> MapId(region_map, r.region),
       time_id |-> MapId(time_map, YearMonthOf(r)),
       total_energy_mwh |-> r.total_energy_mwh,
       total_co2_tonnes |-> r.total_co2_tonnes,
       co2_per_mwh |-> r.co2_per_mwh] : r \in intensity }

\* df.columns[df.isna().any()]
BadColumns(df, cols) == {c \in cols : \E r \in df : isna(r[c])}

\* faulty variant: the check is skipped
NullCheckOff(ef, mf, jf) == [table |-> "", bad_cols |-> {}]

\* faulty variant: only the surrogate-id columns are checked
NullCheckKeys(ef, mf, jf) ==
    LET be == BadColumns(ef, EnergyKey)
        bm == BadColumns(mf, EmissionsKey)
        bj == BadColumns(jf, IntensityKey)
    IN  IF be # {} THEN [table |-> "energy_fact", bad_cols |-> be]
        ELSE IF bm # {} THEN [table |-> "emissions_fact", bad_cols |-> bm]
        ELSE IF bj # {} THEN [table |-> "intensity_fact", bad_cols |-> bj]
        ELSE [table |-> "", bad_cols |-> {}]

\* step 5 of main: the first of the three tables, in the order of the
\* loop, that has a missing value, with its columns; "" when none has
NullCheck(ef, mf, jf) ==
    LET be == BadColumns(ef, EnergyKey \cup EnergySet)
        bm == BadColumns(mf, EmissionsKey \cup EmissionsSet)
        bj == BadColumns(jf, IntensityKey \cup IntensitySet)
    IN  IF be # {} THEN [table |-> "energy_fact", bad_cols |-> be]
        ELSE IF bm # {} THEN [table |-> "emissions_fact", bad_cols |-> bm]
        ELSE IF bj # {} THEN [table |-> "intensity_fact", bad_cols |-> bj]
        ELSE [table |-> "", bad_cols |-> {}]

(* ------------------------------- main --------------------------------- *)

DataTables ==
    {"dim_region", "dim_energy_source", "dim_sector", "dim_time",
     "fact_energy_monthly", "fact_emissions_monthly", "fact_carbon_intensity"}

\* the statements of main at which the storage engine can be made to fail
FaultPoints ==
    {"dim_region", "dim_energy_source", "dim_sector", "dim_time", "fetch",
     "fact_energy", "fact_emissions", "fact_intensity"}

Faults == {"none"} \cup FaultPoints

\* faulty variant: the statements run in autocommit: a failure keeps the work
KeepWork(committed, conn) == conn

\* engine.begin(): leaving the block by an exception rolls the transaction
\* back, leaving it normally commits
Rollback(committed, conn) == committed

Commit(committed, conn) == conn

Changed(committed, conn) == \E t \in DataTables : conn[t] # committed[t]

Raise(committed, conn, outcome, table, bad_cols) ==
    [db |-> Rollback(committed, conn), outcome |-> outcome, table |-> table,
     bad_cols |-> bad_cols, discarded |-> Changed(committed, conn),
     staged |-> conn.stg]

Success(committed, conn) ==
    [db |-> Commit(committed, conn), outcome |-> "ok", table |-> "",
     bad_cols |-> {}, discarded |-> FALSE, staged |-> conn.stg]

\* step 1 of main: the three dimension registrations, in order
RegisterDims(conn, energy_m, emis_m, fault, ord) ==
    LET s1 == upsert_dim_table(conn, "dim_region", "region_name",
                               Column(energy_m, "region"),
                               ord.dim_region, fault = "dim_region")
        s2 == upsert_dim_table(s1.conn, "dim_energy_source", "source_name",
                               Column(energy_m, "energy_source"),
                               ord.dim_energy_source, fault = "dim_energy_source")
        s3 == upsert_dim_table(s2.conn, "dim_sector", "sector_name",
                               Column(emis_m, "sector"),
                               ord.dim_sector, fault = "dim_sector")
    IN  IF s1.raised THEN s1 ELSE IF s2.raised THEN s2 ELSE s3

\* step 2 of main: ym, the union of the (year, month) pairs of the marts
YearMonthPairs(energy_m, emis_m, intensity) ==
    {YearMonthOf(r) : r \in energy_m} \cup {YearMonthOf(r) : r \in emis_m}
        \cup {YearMonthOf(r) : r \in intensity}

\* step 6 of main: the three fact upserts, in order
UpsertFacts(conn, ef, mf, jf, fault) ==
    LET s5 == upsert_fact_energy(conn, ef, fault = "fact_energy")
        s6 == upsert_fact_emissions(s5.conn, mf, fault = "fact_emissions")
        s7 == upsert_fact_intensity(s6.conn, jf, fault = "fact_intensity")
    IN  IF s5.raised THEN s5 ELSE IF s6.raised THEN s6 ELSE s7

\* steps 1 and 2 of main: the dimension and time registrations
Register(conn, energy_m, emis_m, intensity, fault, ord) ==
    LET dims == RegisterDims(conn, energy_m, emis_m, fault, ord)
        time == upsert_dim_time(dims.conn,
                    SetToSeq(YearMonthPairs(energy_m, emis_m, intensity)),
                    ord.dim_time, fault = "dim_time")
    IN  IF dims.raised THEN dims ELSE time

\* steps 3 and 4 of main: the mappings fetched from conn and the three fact
\* DataFrames built with them
BuildFacts(conn, energy_m, emis_m, intensity) ==
    LET region_map == fetch_dim_map(conn, "dim_region", "region_id", "region_name")
        source_map == fetch_dim_map(conn, "dim_energy_source", "source_id", "source_name")
        sector_map == fetch_dim_map(conn, "dim_sector", "sector_id", "sector_name")
        time_map == fetch_time_map(conn)
    IN  [energy_fact |-> energy_fact(energy_m, region_map, source_map, time_map),
         emissions_fact |-> emissions_fact(emis_m, region_map, sector_map, time_map),
         intensity_fact |-> intensity_fact(intensity, region_map, time_map)]

\* steps 5 and 6 of main, and the end of the engine.begin() block: the
\* null check of the built DataFrames, then the three upserts
CheckAndUpsert(committed, conn, built, chk, fault) ==
    IF chk.table # ""
    THEN Raise(committed, conn, "ValueError", chk.table, chk.bad_cols)
    ELSE LET facts == UpsertFacts(conn, built.energy_fact, built.emissions_fact,
                                  built.intensity_fact, fault)
         IN  IF facts.raised
             THEN Raise(committed, facts.conn, "StorageError", "", {})
             ELSE Success(committed, facts.conn)

\* steps 3 to 6 of main, after the registrations reg
FetchAndLoad(committed, reg, built, fault) ==
    IF reg.raised THEN Raise(committed, reg.conn, "StorageError", "", {})
    ELSE IF fault = "fetch" THEN Raise(committed, reg.conn, "StorageError", "", {})
    ELSE CheckAndUpsert(committed, reg.conn, built,
             NullCheck(built.energy_fact, built.emissions_fact, built.intensity_fact),
             fault)

\* steps 1 to 4 of main on the transaction's connection, then the rest
Run(committed, reg, energy_m, emis_m, intensity, fault) ==
    FetchAndLoad(committed, reg,
                 BuildFacts(reg.conn, energy_m, emis_m, intensity), fault)

\* main(): one run of the loader on the marts energy_m, emis_m, intensity
\* against the committed warehouse; fault is the statement that fails (if
\* it is executed), ord the engine's insertion orders
main(committed, energy_m, emis_m, intensity, fault, ord) ==
    Run(committed, Register(committed, energy_m, emis_m, intensity, fault, ord),
        energy_m, emis_m, intensity, fault)

\* the insertion orders the engine may use in a run on these marts
EngineOrders(committed, energy_m, emis_m, intensity) ==
    { [dim_region |-> o1, dim_energy_source |-> o2, dim_sector |-> o3, dim_time |-> o4] :
        o1 \in Orders(MissingNames(committed.dim_region, "region_name",
                                   {r.region : r \in energy_m})),
        o2 \in Orders(MissingNames(committed.dim_energy_source, "source_name",
                                   {r.energy_source : r \in energy_m})),
        o3 \in Orders(MissingNames(committed.dim_sector, "sector_name",
                                   {r.sector : r \in emis_m})),
        o4 \in Orders(MissingYearMonths(committed.dim_time,
                                   YearMonthPairs(energy_m, emis_m, intensity))) }

ResOf(r) ==
    [outcome |-> r.outcome, table |-> r.table, bad_cols |-> r.bad_cols,
     discarded |-> r.discarded, staged |-> r.staged]

(* ------------------------------ actions ------------------------------- *)

Init ==
    /\ db = EmptyWarehouse
    /\ res = [outcome |-> "none", table |-> "", bad_cols |-> {}, discarded |-> FALSE,
              staged |-> {}]
    /\ call = [op |-> "none", args |-> <<>>]

\* a run of the loader on any three marts; the storage engine fails only
\* where a statement of the run makes it fail
Load ==
    \E t \in MartTriples :
        \E ord \in EngineOrders(db, t[1], t[2], t[3]) :
            LET r == main(db, t[1], t[2], t[3], "none", ord)
            IN  /\ db' = r.db
                /\ res' = ResOf(r)
                /\ call' = [op |-> "main", args |-> <<"none">>]

Next == Load

Spec == Init /\ [][Next]_vars

\* the marts of the runs with storage failures: one version of each row
FaultTriples ==
    { t \in MartTriples :
        /\ \A r \in t[1] : r.avg_consumption_mwh = <<10>> /\ ~isna(r.avg_temp_c)
        /\ \A r \in t[3] : ~isna(r.co2_per_mwh) }

\* a run of the loader in which the statement fault, if the run executes
\* it, fails with a storage error
LoadFault ==
    \E t \in FaultTriples, fault \in Faults :
        \E ord \in EngineOrders(db, t[1], t[2], t[3]) :
            LET r == main(db, t[1], t[2], t[3], fault, ord)
            IN  /\ db' = r.db
                /\ res' = ResOf(r)
                /\ call' = [op |-> "main", args |-> <<fault>>]

NextFault == LoadFault

SpecFault == Init /\ [][NextFault]_vars

(* ------------- direct calls of the dimension registrations ------------ *)

\* the candidate values of a direct call, by table
CandidateNames(table) ==
    CASE table = "dim_region" -> DimNames
      [] table = "dim_energy_source" -> Sources
      [] table = "dim_sector" -> Sectors

OkRes(conn) ==
    [outcome |-> "ok", table |-> "", bad_cols |-> {}, discarded |-> FALSE,
     staged |-> conn.stg]

ErrRes(committed, conn) ==
    [outcome |-> "StorageError", table |-> "", bad_cols |-> {},
     discarded |-> Changed(committed, conn), staged |-> conn.stg]

\* upsert_dim_table called in a transaction of its own
RegisterDim ==
    \E table \in DimTables :
        \E values \in SeqsUpTo(CandidateNames(table), MaxLen) :
            \E ord \in Orders(MissingNames(db[table], NameCol(table), ToSet(values))) :
                LET r == upsert_dim_table(db, table, NameCol(table), values, ord, FALSE)
                IN  /\ db' = Commit(db, r.conn)
                    /\ res' = OkRes(r.conn)
                    /\ call' = [op |-> "upsert_dim_table", args |-> <<table, values>>]

\* upsert_dim_time called in a transaction of its own
RegisterTime ==
    \E pairs \in SeqsUpTo(DimYearMonths, MaxLen) :
        \E ord \in Orders(MissingYearMonths(db.dim_time, ToSet(pairs))) :
            LET r == upsert_dim_time(db, pairs, ord, FALSE)
            IN  /\ db' = Commit(db, r.conn)
                /\ res' = OkRes(r.conn)
                /\ call' = [op |-> "upsert_dim_time", args |-> <<pairs>>]

NextDim == RegisterDim \/ RegisterTime

SpecDim == Init /\ [][NextDim]_vars

(* ------------------ direct calls of the fact upserts ------------------ *)

FactIds == {<<1>>, <<2>>}

\* the rows of the DataFrames of the direct calls
EnergyFactRows ==
    { [region_id |-> r, source_id |-> <<1>>, time_id |-> <<1>>,
       avg_consumption_mwh |-> m.avg_consumption_mwh,
       max_consumption_mwh |-> m.max_consumption_mwh,
       avg_temp_c |-> m.avg_temp_c, records |-> m.records]
      : r \in FactIds, m \in {x \in EnergyMetrics : ~isna(x.avg_temp_c)} }

EmissionsFactRows ==
    { [region_id |-> r, sector_id |-> <<1>>, time_id |-> <<1>>,
       avg_co2_tonnes |-> m.avg_co2_tonnes,
       total_co2_tonnes |-> m.total_co2_tonnes, records |-> m.records]
      : r \in FactIds, m \in EmissionsMetrics }

IntensityFactRows ==
    { [region_id |-> r, time_id |-> <<1>>,
       total_energy_mwh |-> m.total_energy_mwh,
       total_co2_tonnes |-> m.total_co2_tonnes, co2_per_mwh |-> m.co2_per_mwh]
      : r \in FactIds, m \in {x \in IntensityMetrics : ~isna(x.co2_per_mwh)} }

\* upsert_fact_energy called in a transaction of its own
UpsertEnergy ==
    \E df \in SubsetsUpTo(EnergyFactRows, MaxBatch) :
        LET r == upsert_fact_energy(db, df, FALSE)
        IN  /\ db' = IF r.raised THEN Rollback(db, r.conn) ELSE Commit(db, r.conn)
            /\ res' = IF r.raised THEN ErrRes(db, r.conn) ELSE OkRes(r.conn)
            /\ call' = [op |-> "upsert_fact_energy", args |-> <<df>>]

\* upsert_fact_emissions called in a transaction of its own
UpsertEmissions ==
    \E df \in SubsetsUpTo(EmissionsFactRows, MaxBatch) :
        LET r == upsert_fact_emissions(db, df, FALSE)
        IN  /\ db' = IF r.raised THEN Rollback(db, r.conn) ELSE Commit(db, r.conn)
            /\ res' = IF r.raised THEN ErrRes(db, r.conn) ELSE OkRes(r.conn)
            /\ call' = [op |-> "upsert_fact_emissions", args |-> <<df>>]

\* upsert_fact_intensity called in a transaction of its own
UpsertIntensity ==
    \E df \in SubsetsUpTo(IntensityFactRows, MaxBatch) :
        LET r == upsert_fact_intensity(db, df, FALSE)
        IN  /\ db' = IF r.raised THEN Rollback(db, r.conn) ELSE Commit(db, r.conn)
            /\ res' = IF r.raised THEN ErrRes(db, r.conn) ELSE OkRes(r.conn)
            /\ call' = [op |-> "upsert_fact_intensity", args |-> <<df>>]

NextFact == UpsertEnergy \/ UpsertEmissions \/ UpsertIntensity

SpecFact == Init /\ [][NextFact]_vars

(* ============================ properties ============================== *)

FactTables ==
    {"fact_energy_monthly", "fact_emissions_monthly", "fact_carbon_intensity"}

KeyOf(table) ==
    CASE table = "fact_energy_monthly" -> EnergyKey
      [] table = "fact_emissions_monthly" -> EmissionsKey
      [] table = "fact_carbon_intensity" -> IntensityKey

\* the fact table a direct call writes; "" for any other call
TargetOf(op) ==
    CASE op = "upsert_fact_energy" -> "fact_energy_monthly"
      [] op = "upsert_fact_emissions" -> "fact_emissions_monthly"
      [] op = "upsert_fact_intensity" -> "fact_carbon_intensity"
      [] OTHER -> ""

KeyTuple(r, key) == [c \in key |-> r[c]]

KeyTuples(rows, key) == {KeyTuple(r, key) : r \in rows}

\* the columns of a DataFrame in which some row has no value
ColumnsWithMissing(df) == {c \in UNION {DOMAIN r : r \in df} : \E r \in df : r[c] = NA}

\* C1: a run of main on marts whose load succeeds, repeated on the same
\* marts, succeeds again and leaves every dimension table and every fact
\* table exactly as the first run left it.
C1_LoadIdempotent ==
    \A t \in MartTriples :
        \A ord \in EngineOrders(db, t[1], t[2], t[3]) :
            LET r1 == main(db, t[1], t[2], t[3], "none", ord)
            IN  r1.outcome = "ok" =>
                    \A ord2 \in EngineOrders(r1.db, t[1], t[2], t[3]) :
                        LET r2 == main(r1.db, t[1], t[2], t[3], "none", ord2)
                        IN  r2.outcome = "ok" /\ r2.db = r1.db

\* a successful run has filled both regions and all three fact tables
C1_Witness ==
    /\ call.op = "main" /\ res.outcome = "ok"
    /\ Cardinality(db.dim_region) = 2
    /\ \A f \in FactTables : db[f] # {}

\* C2: a fact upsert that succeeds leaves, for each incoming row, exactly
\* one row with that key, and that row is the incoming row (its metrics are
\* the incoming ones, not the old ones nor a combination); when every
\* incoming key was already in the table the number of rows is unchanged.
C2_LastWriteWins ==
    [][ (TargetOf(call'.op) # "" /\ res'.outcome = "ok") =>
            LET f == TargetOf(call'.op)
                df == call'.args[1]
            IN  /\ \A s \in df :
                      {r \in db'[f] : KeyTuple(r, KeyOf(f)) = KeyTuple(s, KeyOf(f))} = {s}
                /\ (KeyTuples(df, KeyOf(f)) \subseteq KeyTuples(db[f], KeyOf(f))
                      => Cardinality(db'[f]) = Cardinality(db[f])) ]_vars

\* the intensity table holds both regions, and the last call wrote the
\* second version of one of its rows
C2_Witness ==
    /\ call.op = "upsert_fact_intensity" /\ res.outcome = "ok"
    /\ Cardinality(db.fact_carbon_intensity) = 2
    /\ \E s \in call.args[1] :
          s.total_energy_mwh = <<20>> /\ s \in db.fact_carbon_intensity

\* C3: a run of main that ends with an error leaves the four dimension
\* tables and the three fact tables as they were before the run.
C3_FailedRunAtomic ==
    [][ (call'.op = "main" /\ res'.outcome \in {"StorageError", "ValueError"})
            => \A t \in DataTables : db'[t] = db[t] ]_vars

\* the third fact merge failed and the transaction held changed tables
C3_Witness ==
    /\ call = [op |-> "main", args |-> <<"fact_intensity">>]
    /\ res.outcome = "StorageError" /\ res.discarded

C5_ZeroDenominatorLoads ==
    ~(/\ call.op = "main" /\ res.outcome = "ValueError"
      /\ res.table = "intensity_fact" /\ res.bad_cols = {"co2_per_mwh"})

\* C6: a dimension registration keeps every existing row, adds exactly one
\* row for each distinct candidate that no row held, touches no other
\* table, and leaves each natural key with exactly one surrogate id.
C6_DimensionsAppendOnly ==
    [][ /\ call'.op = "upsert_dim_table" =>
            LET table == call'.args[1]
                vals == ToSet(call'.args[2])
                old == {d[NameCol(table)] : d \in db[table]}
                added == db'[table] \ db[table]
            IN  /\ db[table] \subseteq db'[table]
                /\ {d[NameCol(table)] : d \in added} = vals \ old
                /\ Cardinality(added) = Cardinality(vals \ old)
                /\ \A a, b \in db'[table] :
                      (a[NameCol(table)] = b[NameCol(table)]
                        \/ a[IdCol(table)] = b[IdCol(table)]) => a = b
                /\ \A o \in DOMAIN db : o # table => db'[o] = db[o]
        /\ call'.op = "upsert_dim_time" =>
            LET pairs == ToSet(call'.args[1])
                old == {<<d.year, d.month>> : d \in db.dim_time}
                added == db'.dim_time \ db.dim_time
            IN  /\ db.dim_time \subseteq db'.dim_time
                /\ {<<d.year, d.month>> : d \in added} = pairs \ old
                /\ Cardinality(added) = Cardinality(pairs \ old)
                /\ \A a, b \in db'.dim_time :
                      ((a.year = b.year /\ a.month = b.month)
                        \/ a.time_id = b.time_id) => a = b
                /\ \A o \in DOMAIN db : o # "dim_time" => db'[o] = db[o] ]_vars

\* {South, East} was registered after North and South: three region rows,
\* East with the third id
C6_Witness ==
    /\ call = [op |-> "upsert_dim_table", args |-> <<"dim_region", <<"South", "East">>>>]
    /\ Cardinality(db.dim_region) = 3
    /\ [region_id |-> 2, region_name |-> "South"] \in db.dim_region
    /\ [region_id |-> 3, region_name |-> "East"] \in db.dim_region

\* C7: every fact row's region_id, time_id and source_id or sector_id is
\* the id of a row of its dimension table.
C7_ReferentialIntegrity ==
    LET ids(table, id_col) == {<<d[id_col]>> : d \in db[table]}
    IN  /\ \A f \in FactTables : \A r \in db[f] :
              /\ r.region_id \in ids("dim_region", "region_id")
              /\ r.time_id \in ids("dim_time", "time_id")
        /\ \A r \in db.fact_energy_monthly :
              r.source_id \in ids("dim_energy_source", "source_id")
        /\ \A r \in db.fact_emissions_monthly :
              r.sector_id \in ids("dim_sector", "sector_id")

\* every fact table holds a row for each of the two regions
C7_Witness ==
    /\ call.op = "main"
    /\ \A f \in FactTables : Cardinality({r.region_id : r \in db[f]}) = 2

\* C8: no two rows of a fact table have the same foreign-key tuple.
C8_FactKeysUnique ==
    \A f \in FactTables : \A a, b \in db[f] :
        KeyTuple(a, KeyOf(f)) = KeyTuple(b, KeyOf(f)) => a = b

\* a run has written the second version of an energy row
C8_Witness ==
    /\ call.op = "main" /\ res.outcome = "ok"
    /\ \E r \in db.fact_energy_monthly : r.avg_consumption_mwh = <<20>>
    /\ Cardinality(db.fact_energy_monthly) = 2

\* C9: after the registrations of a run the mappings hold every key of the
\* three marts: no run ends with the error naming a surrogate-id column.
C9_MappingsComplete ==
    (call.op = "main" /\ res.outcome = "ValueError")
        => res.bad_cols \cap {"region_id", "source_id", "sector_id", "time_id"} = {}

\* C10: a fact upsert keeps every row whose key is not in the incoming
\* DataFrame, deletes no key, and leaves the other two fact tables and the
\* dimension tables unchanged.
C10_OtherRowsUntouched ==
    [][ TargetOf(call'.op) # "" =>
            LET f == TargetOf(call'.op)
                df == call'.args[1]
            IN  /\ \A r \in db[f] :
                      KeyTuple(r, KeyOf(f)) \notin KeyTuples(df, KeyOf(f)) => r \in db'[f]
                /\ KeyTuples(db[f], KeyOf(f)) \subseteq KeyTuples(db'[f], KeyOf(f))
                /\ \A o \in DataTables : o # f => db'[o] = db[o] ]_vars

\* the emissions upsert wrote one key while the table holds another key
\* and the other two fact tables hold rows
C10_Witness ==
    /\ call.op = "upsert_fact_emissions" /\ res.outcome = "ok"
    /\ call.args[1] # {}
    /\ \E r \in db.fact_emissions_monthly :
          KeyTuple(r, EmissionsKey) \notin KeyTuples(call.args[1], EmissionsKey)
    /\ db.fact_energy_monthly # {} /\ db.fact_carbon_intensity # {}

\* the staging table of the step a failing statement belongs to; the
\* fetch of the mappings stages nothing
StagingOf(fault) ==
    CASE fault \in DimTables \cup {"dim_time"} -> {StgOf(fault)}
      [] fault \in {"fact_energy", "fact_emissions", "fact_intensity"} -> {StgOf(fault)}
      [] OTHER -> {}

\* C11: once a run of main has ended no staging table exists in the
\* warehouse.  A run that succeeds, or that stops at the null check, has
\* dropped every staging table itself before the transaction ends; a run
\* that stops at a failing statement holds at most one staging table (none
\* of an earlier step is carried along), the one of the step whose
\* statement was made to fail, and the rollback removes it.
C11_StagingReleased ==
    /\ db.stg = {}
    /\ call.op = "main" =>
          /\ res.outcome \in {"ok", "ValueError"} => res.staged = {}
          /\ res.outcome = "StorageError" =>
                /\ Cardinality(res.staged) <= 1
                /\ call.args[1] \in FaultPoints => res.staged = StagingOf(call.args[1])

\* the emissions merge failed after the energy merge had written rows: the
\* transaction held stg_fact_emissions, and the warehouse holds none
C11_Witness ==
    /\ call = [op |-> "main", args |-> <<"fact_emissions">>]
    /\ res.outcome = "StorageError" /\ res.discarded
    /\ res.staged = {"stg_fact_emissions"}
    /\ db.stg = {}

====
